---- MODULE Spec2Model ----
(***************************************************************************)
(* A model of django-configurations' value descriptors (values.py) and of  *)
(* the loader that injects a configuration class into its settings module  *)
(* (importer.py).                                                          *)
(*                                                                         *)
(* Python strings are sequences of one-character strings, so that upper(), *)
(* lower(), strip(), endswith() and path expansion are computed and not    *)
(* assumed.  Python values are records [kind, val].                        *)
(***************************************************************************)
EXTENDS Integers, Sequences, FiniteSets, TLC

(***************************************************************************)
(* Bounds of the model.                                                    *)
(***************************************************************************)
\* the number of operations applied to one descriptor
MaxCalls == 3
\* the length of a raw string given to DictValue.to_python
MaxRawLen == 5
\* the number of calls of install
MaxInstalls == 5
\* the number of keyword arguments passed to a constructor
MaxKwargs == 2
\* the number of variables set in the environment
MaxEnvVars == 1
\* the number of attributes a configuration class declares
MaxAttrs == 2

(***************************************************************************)
(* Strings.                                                                *)
(***************************************************************************)
LowerLetters ==
  <<"a","b","c","d","e","f","g","h","i","j","k","l","m",
    "n","o","p","q","r","s","t","u","v","w","x","y","z">>

UpperLetters ==
  <<"A","B","C","D","E","F","G","H","I","J","K","L","M",
    "N","O","P","Q","R","S","T","U","V","W","X","Y","Z">>

IsLowerChar(c) == \E i \in 1..Len(LowerLetters) : LowerLetters[i] = c

IsUpperChar(c) == \E i \in 1..Len(UpperLetters) : UpperLetters[i] = c

UpperChar(c) ==
  IF IsLowerChar(c)
  THEN UpperLetters[CHOOSE i \in 1..Len(LowerLetters) : LowerLetters[i] = c]
  ELSE c

LowerChar(c) ==
  IF IsUpperChar(c)
  THEN LowerLetters[CHOOSE i \in 1..Len(UpperLetters) : UpperLetters[i] = c]
  ELSE c

\* str.upper()
Upper(s) == [i \in 1..Len(s) |-> UpperChar(s[i])]

\* str.lower()
Lower(s) == [i \in 1..Len(s) |-> LowerChar(s[i])]

\* str.isupper(): some cased character, and no lowercase one
IsUpperStr(s) ==
  /\ \E i \in 1..Len(s) : IsUpperChar(s[i])
  /\ \A i \in 1..Len(s) : ~IsLowerChar(s[i])

\* str.endswith(c) for a one-character c
EndsWith(s, c) == Len(s) > 0 /\ s[Len(s)] = c

RECURSIVE LStrip(_)
LStrip(s) == IF Len(s) > 0 /\ s[1] = " " THEN LStrip(Tail(s)) ELSE s

RECURSIVE RStrip(_)
RStrip(s) ==
  IF Len(s) > 0 /\ s[Len(s)] = " " THEN RStrip(SubSeq(s, 1, Len(s) - 1)) ELSE s

\* str.strip()
Strip(s) == RStrip(LStrip(s))

(***************************************************************************)
(* Python values and the outcome of a call.                                *)
(***************************************************************************)
PyNone == [kind |-> "none", val |-> <<>>]

PyStr(s) == [kind |-> "str", val |-> s]

PyBool(b) == [kind |-> "bool", val |-> b]

PyInt(n) == [kind |-> "int", val |-> n]

\* a dict: a function from key strings to values
PyDict(f) == [kind |-> "dict", val |-> f]

\* a reference to a Value instance that was never resolved into a plain value
Descriptor(id) == [kind |-> "descriptor", val |-> id]

\* a function or method object
Callable(id) == [kind |-> "callable", val |-> id]

EmptyMap == [k \in {} |-> PyNone]

\* bool(v)
Truthy(v) ==
  CASE v.kind = "none" -> FALSE
    [] v.kind = "str" -> Len(v.val) > 0
    [] v.kind = "bool" -> v.val
    [] v.kind = "int" -> v.val # 0
    [] v.kind = "dict" -> DOMAIN v.val # {}
    [] OTHER -> TRUE

Ok(v) == [kind |-> "ok", val |-> v]

Raise(e) == [kind |-> "raise", val |-> e]

(***************************************************************************)
(* The classes of values.py: their bases and the attributes and methods    *)
(* each class body defines.  A method is recorded as a callable named      *)
(* after the class that defines it.                                        *)
(***************************************************************************)
Classes ==
  {"Value", "MultipleMixin", "BooleanValue", "CastingMixin", "IntegerValue",
   "PositiveIntegerValue", "FloatValue", "DecimalValue", "SequenceValue",
   "ListValue", "TupleValue", "SingleNestedSequenceValue",
   "SingleNestedListValue", "SingleNestedTupleValue", "BackendsValue",
   "SetValue", "DictValue", "ValidationMixin", "EmailValue", "URLValue",
   "IPValue", "RegexValue", "PathValue", "SecretValue", "EmailURLValue",
   "DictBackendMixin", "DatabaseURLValue", "CacheURLValue", "SearchURLValue"}

\* the mixins and abstract bases, which are not used as settings themselves
AbstractClasses ==
  {"MultipleMixin", "CastingMixin", "ValidationMixin", "DictBackendMixin",
   "SequenceValue", "SingleNestedSequenceValue"}

\* the variants a configuration class declares
Variants == Classes \ AbstractClasses

\* the composite URL variants
URLVariants ==
  {"EmailURLValue", "DatabaseURLValue", "CacheURLValue", "SearchURLValue"}

\* a variant of the class statements in which DictBackendMixin also derives
\* from MultipleMixin
BasesMultipleBackend(c) ==
  CASE c \in {"Value", "MultipleMixin", "CastingMixin", "ValidationMixin"} -> <<>>
    [] c \in {"IntegerValue", "FloatValue", "DecimalValue"} ->
         <<"CastingMixin", "Value">>
    [] c = "PositiveIntegerValue" -> <<"IntegerValue">>
    [] c \in {"ListValue", "TupleValue", "SingleNestedSequenceValue"} ->
         <<"SequenceValue">>
    [] c \in {"SingleNestedListValue", "SingleNestedTupleValue"} ->
         <<"SingleNestedSequenceValue">>
    [] c \in {"BackendsValue", "SetValue"} -> <<"ListValue">>
    [] c \in {"EmailValue", "URLValue", "IPValue", "RegexValue"} ->
         <<"ValidationMixin", "Value">>
    [] c = "EmailURLValue" -> <<"CastingMixin", "MultipleMixin", "Value">>
    [] c = "DictBackendMixin" -> <<"MultipleMixin", "Value">>
    [] c \in {"DatabaseURLValue", "CacheURLValue", "SearchURLValue"} ->
         <<"DictBackendMixin", "CastingMixin", "Value">>
    [] OTHER -> <<"Value">>

\* the bases of each class statement, in the order written
Bases(c) ==
  CASE c \in {"Value", "MultipleMixin", "CastingMixin", "ValidationMixin"} -> <<>>
    [] c \in {"IntegerValue", "FloatValue", "DecimalValue"} ->
         <<"CastingMixin", "Value">>
    [] c = "PositiveIntegerValue" -> <<"IntegerValue">>
    [] c \in {"ListValue", "TupleValue", "SingleNestedSequenceValue"} ->
         <<"SequenceValue">>
    [] c \in {"SingleNestedListValue", "SingleNestedTupleValue"} ->
         <<"SingleNestedSequenceValue">>
    [] c \in {"BackendsValue", "SetValue"} -> <<"ListValue">>
    [] c \in {"EmailValue", "URLValue", "IPValue", "RegexValue"} ->
         <<"ValidationMixin", "Value">>
    [] c = "EmailURLValue" -> <<"CastingMixin", "MultipleMixin", "Value">>
    [] c \in {"DatabaseURLValue", "CacheURLValue", "SearchURLValue"} ->
         <<"DictBackendMixin", "CastingMixin", "Value">>
    [] OTHER -> <<"Value">>

EMAIL_URL == <<"E","M","A","I","L","_","U","R","L">>

DATABASE_URL == <<"D","A","T","A","B","A","S","E","_","U","R","L">>

CACHE_URL == <<"C","A","C","H","E","_","U","R","L">>

SEARCH_URL == <<"S","E","A","R","C","H","_","U","R","L">>

DJANGO == <<"D","J","A","N","G","O">>

\* the attributes and methods a class body defines itself
ClassBody(c) ==
  CASE c = "Value" ->
         [multiple |-> PyBool(FALSE), late_binding |-> PyBool(FALSE),
          environ_required |-> PyBool(FALSE),
          setup |-> Callable("Value"), to_python |-> Callable("Value")]
    [] c = "MultipleMixin" -> [multiple |-> PyBool(TRUE)]
    [] c = "BooleanValue" -> [to_python |-> Callable("BooleanValue")]
    [] c = "CastingMixin" -> [to_python |-> Callable("CastingMixin")]
    [] c = "IntegerValue" -> [caster |-> Callable("int")]
    [] c = "PositiveIntegerValue" ->
         [to_python |-> Callable("PositiveIntegerValue")]
    [] c = "FloatValue" -> [caster |-> Callable("float")]
    [] c = "DecimalValue" -> [caster |-> Callable("decimal.Decimal")]
    [] c = "SequenceValue" -> [to_python |-> Callable("SequenceValue")]
    [] c = "SingleNestedSequenceValue" ->
         [to_python |-> Callable("SingleNestedSequenceValue")]
    [] c = "SetValue" -> [to_python |-> Callable("SetValue")]
    [] c = "DictValue" -> [to_python |-> Callable("DictValue")]
    [] c = "ValidationMixin" -> [to_python |-> Callable("ValidationMixin")]
    [] c = "PathValue" -> [setup |-> Callable("PathValue")]
    [] c = "SecretValue" -> [setup |-> Callable("SecretValue")]
    [] c = "EmailURLValue" ->
         [caster |-> Callable("dj_email_url.parse"),
          late_binding |-> PyBool(TRUE)]
    [] c = "DictBackendMixin" -> [to_python |-> Callable("DictBackendMixin")]
    [] c = "DatabaseURLValue" ->
         [caster |-> Callable("dj_database_url.parse"),
          environ_name |-> PyStr(DATABASE_URL), late_binding |-> PyBool(TRUE)]
    [] c = "CacheURLValue" ->
         [caster |-> Callable("django_cache_url.parse"),
          environ_name |-> PyStr(CACHE_URL), late_binding |-> PyBool(TRUE)]
    [] c = "SearchURLValue" ->
         [caster |-> Callable("dj_search_url.parse"),
          environ_name |-> PyStr(SEARCH_URL), late_binding |-> PyBool(TRUE)]
    [] OTHER -> [x \in {} |-> PyNone]

\* the class and its bases, depth first and left to right
RECURSIVE Linearize(_)
RECURSIVE LinearizeAll(_)
Linearize(c) == <<c>> \o LinearizeAll(Bases(c))

LinearizeAll(bs) ==
  IF bs = <<>> THEN <<>> ELSE Linearize(Head(bs)) \o LinearizeAll(Tail(bs))

\* the method resolution order: each class once, after the classes that
\* derive from it
ComputeMro(c) ==
  LET lin == Linearize(c)
      keep == {i \in 1..Len(lin) : \A j \in (i + 1)..Len(lin) : lin[j] # lin[i]}
      F[i \in 0..Len(lin)] ==
        IF i = 0 THEN <<>>
        ELSE IF i \in keep THEN Append(F[i - 1], lin[i]) ELSE F[i - 1]
  IN F[Len(lin)]

MroTable == [c \in Classes |-> ComputeMro(c)]

Mro(c) == MroTable[c]

\* the first class of a resolution order that defines attribute a
RECURSIVE Definer(_, _)
Definer(mro, a) ==
  IF mro = <<>> THEN "object"
  ELSE IF a \in DOMAIN ClassBody(Head(mro)) THEN Head(mro)
  ELSE Definer(Tail(mro), a)

\* the classes after k in a resolution order: where super() of k looks
RECURSIVE After(_, _)
After(mro, k) ==
  IF mro = <<>> THEN <<>>
  ELSE IF Head(mro) = k THEN Tail(mro) ELSE After(Tail(mro), k)

\* whether a class has the attribute at all
HasClassAttr(c, a) == Definer(Mro(c), a) # "object"

\* the class attribute a as seen from class c
ClassAttr(c, a) == ClassBody(Definer(Mro(c), a))[a]

(***************************************************************************)
(* Namespaces (a module, a class): attribute names in insertion order.     *)
(***************************************************************************)
NsHas(ns, n) == \E i \in 1..Len(ns) : ns[i].name = n

NsGet(ns, n) == ns[CHOOSE i \in 1..Len(ns) : ns[i].name = n].val

NsNames(ns) == {ns[i].name : i \in 1..Len(ns)}

\* setattr(target, n, v) that keeps the value a name already has
SetAttrKeepFirst(ns, n, v) ==
  IF NsHas(ns, n) THEN ns ELSE Append(ns, [name |-> n, val |-> v])

\* setattr(target, n, v)
SetAttr(ns, n, v) ==
  IF NsHas(ns, n)
  THEN [i \in 1..Len(ns) |-> IF ns[i].name = n THEN [name |-> n, val |-> v] ELSE ns[i]]
  ELSE Append(ns, [name |-> n, val |-> v])

\* the keys of a dict in the order its items() yields them
RECURSIVE KeySeq(_)
KeySeq(ks) ==
  IF ks = {} THEN <<>>
  ELSE LET k == CHOOSE x \in ks : \A y \in ks : Len(x) <= Len(y)
       IN <<k>> \o KeySeq(ks \ {k})

(***************************************************************************)
(* Casters.  int is computed; the URL parsers are libraries outside the    *)
(* repository and are given by a table of the URLs they accept.            *)
(***************************************************************************)
Digits == <<"0","1","2","3","4","5","6","7","8","9">>

IsDigit(c) == \E i \in 1..Len(Digits) : Digits[i] = c

DigitValue(c) == (CHOOSE i \in 1..Len(Digits) : Digits[i] = c) - 1

RECURSIVE DecimalValue(_)
DecimalValue(s) ==
  IF s = <<>> THEN 0
  ELSE 10 * DecimalValue(SubSeq(s, 1, Len(s) - 1)) + DigitValue(s[Len(s)])

\* int(raw)
ParseInt(raw) ==
  LET t == Strip(raw)
      signed == Len(t) > 0 /\ t[1] \in {"-", "+"}
      body == IF signed THEN Tail(t) ELSE t
  IN IF Len(body) > 0 /\ \A i \in 1..Len(body) : IsDigit(body[i])
     THEN Ok(PyInt(IF signed /\ t[1] = "-" THEN 0 - DecimalValue(body)
                   ELSE DecimalValue(body)))
     ELSE Raise("ValueError")

URL1 == <<"u",":","1">>

URL2 == <<"u",":","2">>

\* what the URL parsers return for the URLs they accept
ParsedURL(caster, raw) ==
  CASE caster = "dj_email_url.parse" /\ raw = URL1 ->
         (<<"A">> :> PyStr(<<"1">>))
    [] caster = "dj_email_url.parse" /\ raw = URL2 ->
         (<<"A">> :> PyStr(<<"2">>)) @@ (<<"H">> :> PyStr(<<"2">>))
    [] caster # "dj_email_url.parse" /\ raw = URL1 ->
         (<<"N">> :> PyStr(<<"1">>))
    [] caster # "dj_email_url.parse" /\ raw = URL2 ->
         (<<"N">> :> PyStr(<<"2">>))
    [] OTHER -> EmptyMap

\* self._caster(value)
Cast(caster, raw) ==
  IF caster = "int" THEN ParseInt(raw)
  ELSE IF raw \in {URL1, URL2} THEN Ok(PyDict(ParsedURL(caster, raw)))
  ELSE Raise("ValueError")

\* CastingMixin.exception
CasterExceptions == {"TypeError", "ValueError"}

(***************************************************************************)
(* Conversion of a raw environment string: to_python, by method            *)
(* resolution order.                                                       *)
(***************************************************************************)
true_values == {<<"y","e","s">>, <<"y">>, <<"t","r","u","e">>, <<"1">>}

false_values == {<<"n","o">>, <<"n">>, <<"f","a","l","s","e">>, <<"0">>, <<>>}

\* BooleanValue.to_python
BooleanToPython(raw) ==
  LET normalized_value == Lower(Strip(raw))
  IN IF normalized_value \in true_values THEN Ok(PyBool(TRUE))
     ELSE IF normalized_value \in false_values THEN Ok(PyBool(FALSE))
     ELSE Raise("ValueProcessingError")

\* CastingMixin.to_python
CastingToPython(d, raw) ==
  LET handled(r) == IF r.kind = "raise" /\ r.val \in CasterExceptions
                    THEN Raise("ValueProcessingError")
                    ELSE r
  IN handled(Cast(ClassAttr(d.cls, "caster").val, raw))

\* ast.literal_eval, for strings of digits, lowercase letters (no keyword
\* among the names), braces and colons: the expressions are an integer, a
\* name, {}, a set display {e} and a dict display {k:v}
IsIntLiteral(s) ==
  /\ Len(s) > 0
  /\ \A i \in 1..Len(s) : IsDigit(s[i])
  /\ Len(s) = 1 \/ s[1] # "0" \/ \A i \in 1..Len(s) : s[i] = "0"

IsIdentifier(s) ==
  /\ Len(s) > 0
  /\ IsLowerChar(s[1])
  /\ \A i \in 1..Len(s) : IsLowerChar(s[i]) \/ IsDigit(s[i])

\* ast.parse(s, mode='eval') accepts s
IsExpression(s) ==
  LET expr[t \in Seq({s[i] : i \in 1..Len(s)})] ==
        \/ IsIntLiteral(t)
        \/ IsIdentifier(t)
        \/ /\ Len(t) >= 2
           /\ t[1] = "{"
           /\ t[Len(t)] = "}"
           /\ \/ Len(t) = 2
              \/ expr[SubSeq(t, 2, Len(t) - 1)]
              \/ \E i \in 2..(Len(t) - 1) :
                   /\ t[i] = ":"
                   /\ expr[SubSeq(t, 2, i - 1)]
                   /\ expr[SubSeq(t, i + 1, Len(t) - 1)]
  IN expr[s]

\* hash(v) succeeds
Hashable(v) == v.kind \notin {"dict", "set"}

\* _convert(node) of ast.literal_eval, s being the source of the node
Convert(s) ==
  LET set(e) == IF e.kind = "raise" THEN e
                ELSE IF ~Hashable(e.val) THEN Raise("TypeError")
                ELSE Ok([kind |-> "set", val |-> {e.val}])
      dict(key, k, v) ==
        IF k.kind = "raise" THEN k
        ELSE IF v.kind = "raise" THEN v
        ELSE IF ~Hashable(k.val) THEN Raise("TypeError")
        ELSE Ok(PyDict(key :> v.val))
      colon(inner) ==
        CHOOSE i \in 1..Len(inner) :
          /\ inner[i] = ":"
          /\ IsExpression(SubSeq(inner, 1, i - 1))
          /\ IsExpression(SubSeq(inner, i + 1, Len(inner)))
      convert[t \in Seq({s[i] : i \in 1..Len(s)})] ==
        LET inner == SubSeq(t, 2, Len(t) - 1)
        IN IF IsIntLiteral(t) THEN Ok(PyInt(DecimalValue(t)))
           ELSE IF IsIdentifier(t) THEN Raise("ValueError")
           ELSE IF inner = <<>> THEN Ok(PyDict(EmptyMap))
           ELSE IF IsExpression(inner) THEN set(convert[inner])
           ELSE dict(SubSeq(inner, 1, colon(inner) - 1),
                     convert[SubSeq(inner, 1, colon(inner) - 1)],
                     convert[SubSeq(inner, colon(inner) + 1, Len(inner))])
  IN convert[s]

\* ast.literal_eval(s)
LiteralEval(s) ==
  IF IsExpression(LStrip(s)) THEN Convert(LStrip(s)) ELSE Raise("SyntaxError")

\* DictValue.to_python, value being what super().to_python returned
DictToPython(value) ==
  LET checked(evaled_value) ==
        IF evaled_value.kind = "raise"
        THEN IF evaled_value.val = "ValueError"
             THEN Raise("ValueProcessingError") ELSE evaled_value
        ELSE IF evaled_value.val.kind # "dict" THEN Raise("ValueProcessingError")
        ELSE evaled_value
  IN IF value.kind = "raise" THEN value
     ELSE IF ~Truthy(value.val) THEN Ok(PyDict(EmptyMap))
     ELSE checked(LiteralEval(value.val.val))

\* to_python as found from the classes in mro on
RECURSIVE ToPythonFrom(_, _, _)
ToPythonFrom(mro, d, raw) ==
  LET positive(up) == IF up.kind = "ok" /\ up.val.val < 0
                      THEN Raise("ValueProcessingError") ELSE up
      aliased(up) == IF up.kind = "ok" THEN Ok(PyDict(d.alias :> up.val)) ELSE up
      \* the methods that call super().to_python(value) first
      extended(k, up) ==
        CASE k = "PositiveIntegerValue" -> positive(up)
          [] k = "DictBackendMixin" -> aliased(up)
          [] OTHER -> DictToPython(up)
      method(k) ==
        CASE k = "BooleanValue" -> BooleanToPython(raw)
          [] k = "CastingMixin" -> CastingToPython(d, raw)
          [] k \in {"PositiveIntegerValue", "DictBackendMixin", "DictValue"} ->
               extended(k, ToPythonFrom(After(mro, k), d, raw))
          [] OTHER -> Ok(PyStr(raw))
  IN method(Definer(mro, "to_python"))

\* self.to_python(raw)
ToPython(d, raw) == ToPythonFrom(Mro(d.cls), d, raw)

(***************************************************************************)
(* Paths: os.path.expanduser, os.path.exists and os.path.abspath, for      *)
(* paths without "." and ".." components.                                  *)
(***************************************************************************)
HomeDir == <<"/","h">>

WorkDir == <<"/","w">>

\* the index of the first "/" of p, or Len(p) + 1
FirstSlash(p) ==
  IF \E i \in 1..Len(p) : p[i] = "/"
  THEN CHOOSE i \in 1..Len(p) : p[i] = "/" /\ \A j \in 1..(i - 1) : p[j] # "/"
  ELSE Len(p) + 1

\* os.path.expanduser(p): only the current user has a home directory
ExpandUser(p) ==
  IF Len(p) = 0 \/ p[1] # "~" THEN p
  ELSE IF FirstSlash(p) # 2 THEN p
  ELSE HomeDir \o SubSeq(p, 2, Len(p))

\* the components of a path, and the path of a sequence of components
RECURSIVE Components(_)
Components(p) ==
  IF p = <<>> THEN <<>>
  ELSE LET i == FirstSlash(p)
           rest == Components(SubSeq(p, i + 1, Len(p)))
       IN IF i = 1 THEN rest ELSE <<SubSeq(p, 1, i - 1)>> \o rest

RECURSIVE JoinRooted(_)
JoinRooted(cs) ==
  IF cs = <<>> THEN <<>> ELSE <<"/">> \o Head(cs) \o JoinRooted(Tail(cs))

\* os.path.abspath(p)
AbsPath(p) ==
  LET full == IF Len(p) > 0 /\ p[1] = "/" THEN p ELSE WorkDir \o <<"/">> \o p
      cs == Components(full)
  IN IF cs = <<>> THEN <<"/">> ELSE JoinRooted(cs)

\* os.path.exists(p), fs being the absolute paths that exist
PathExists(p, fs) == p # <<>> /\ AbsPath(p) \in fs

(***************************************************************************)
(* Construction of a descriptor: Value.__new__ and the __init__ methods.   *)
(* kw holds the keyword arguments, Unset standing for one not passed.      *)
(***************************************************************************)
Unset == [kind |-> "unset", val |-> <<>>]

Arg(kw, name, dflt) == IF kw[name].kind = "unset" THEN dflt ELSE kw[name]

DefaultAlias == <<"d","e","f","a","u","l","t">>

\* the keyword arguments as the __init__ methods of the subclasses pass them
\* on to Value.__init__
InitKwargs(cls, kw) ==
  LET in(mro, k) == \E i \in 1..Len(mro) : mro[i] = k
      secret(mro, a) ==
        IF in(mro, "SecretValue")
        THEN [a EXCEPT !.environ = PyBool(TRUE),
                       !.environ_required = PyBool(TRUE)]
        ELSE a
      url(mro, a) ==
        IF in(mro, "EmailURLValue") \/ in(mro, "DictBackendMixin")
        THEN [a EXCEPT
                !.environ = Arg(a, "environ", PyBool(TRUE)),
                !.environ_prefix = Arg(a, "environ_prefix", PyNone),
                !.environ_name =
                   Arg(a, "environ_name",
                       IF in(mro, "EmailURLValue") THEN PyStr(EMAIL_URL)
                       ELSE ClassAttr(cls, "environ_name"))]
        ELSE a
      passed(mro) == url(mro, secret(mro, kw))
  IN passed(Mro(cls))

\* Value.__init__
ValueInit(cls, kw, late) ==
  LET stripped(prefix) ==
        IF Truthy(prefix) /\ EndsWith(prefix.val, "_")
        THEN PyStr(SubSeq(prefix.val, 1, Len(prefix.val) - 1))
        ELSE prefix
  IN [cls |-> cls,
      default |-> Arg(kw, "default", PyNone),
      environ |-> Arg(kw, "environ", PyBool(TRUE)).val,
      environ_prefix |-> stripped(Arg(kw, "environ_prefix", PyStr(DJANGO))),
      environ_name |-> Arg(kw, "environ_name", PyNone),
      environ_required |-> Arg(kw, "environ_required", PyBool(FALSE)).val,
      destination_name |-> PyNone,
      has_value |-> FALSE,
      cached |-> PyNone,
      late_binding |-> late,
      check_exists |-> Arg(kw, "check_exists", PyBool(TRUE)).val,
      alias |-> Arg(kw, "alias", PyStr(DefaultAlias)).val]

\* cls.__init__(self, **kw): the instance, or the exception it raises
InitInstance(cls, kw, late) ==
  LET in(mro, k) == \E i \in 1..Len(mro) : mro[i] = k
      \* default in (True, False): 1 and 0 compare equal to them
      boolean(d) == \/ d.default.kind = "bool"
                    \/ d.default.kind = "int" /\ d.default.val \in {0, 1}
      converted(d, conv) ==
        IF conv.kind = "ok" THEN Ok([d EXCEPT !.default = conv.val]) ELSE conv
      init(mro, d) ==
        CASE in(mro, "BooleanValue") /\ ~d.environ_required /\ ~boolean(d) ->
               Raise("ImproperlyConfigured")
          [] in(mro, "SecretValue") /\ d.default.kind # "none" ->
               Raise("ImproperlyConfigured")
          [] in(mro, "DictValue") /\ d.default.kind \in {"none", "dict"} ->
               Ok([d EXCEPT !.default = IF d.default.kind = "none"
                                        THEN PyDict(EmptyMap) ELSE d.default])
          [] in(mro, "DictValue") /\ d.default.kind = "str" ->
               IF d.default.val = <<>>
               THEN Ok([d EXCEPT !.default = PyDict(EmptyMap)])
               ELSE Raise("ValueError")
          [] in(mro, "DictValue") -> Raise("TypeError")
          [] (in(mro, "EmailURLValue") \/ in(mro, "DictBackendMixin"))
               /\ d.default.kind = "none" ->
               Ok([d EXCEPT !.default = PyDict(EmptyMap)])
          [] (in(mro, "EmailURLValue") \/ in(mro, "DictBackendMixin"))
               /\ d.default.kind # "none" ->
               converted(d, ToPython(d, d.default.val))
          [] OTHER -> Ok(d)
  IN init(Mro(cls), ValueInit(cls, InitKwargs(cls, kw), late))

(***************************************************************************)
(* Resolution: full_environ_name, setup and the value property.  env is    *)
(* os.environ, a function from the names that are set to their strings; fs *)
(* is the set of paths that exist.                                         *)
(***************************************************************************)
\* full_environ_name with the derived name left as it was given
FullEnvironNameNoUpper(d) ==
  LET prefixed(environ_name) ==
        IF Truthy(d.environ_prefix)
        THEN d.environ_prefix.val \o <<"_">> \o environ_name
        ELSE environ_name
  IN prefixed(IF Truthy(d.environ_name) THEN d.environ_name.val
              ELSE d.destination_name.val)

\* Value.full_environ_name
FullEnvironName(d) ==
  LET prefixed(environ_name) ==
        IF Truthy(d.environ_prefix)
        THEN d.environ_prefix.val \o <<"_">> \o environ_name
        ELSE environ_name
  IN prefixed(IF Truthy(d.environ_name) THEN d.environ_name.val
              ELSE Upper(d.destination_name.val))

\* the body of Value.setup once self.destination_name is assigned: key is
\* the full name, d1 the descriptor
Lookup(d1, key, env) ==
  LET cache(value) == [d |-> [d1 EXCEPT !.has_value = TRUE, !.cached = value],
                       out |-> Ok(value)]
      converted(conv) == IF conv.kind = "raise" THEN [d |-> d1, out |-> conv]
                         ELSE cache(conv.val)
  IN IF d1.environ
     THEN IF key \in DOMAIN env THEN converted(ToPython(d1, env[key]))
          ELSE IF d1.environ_required
          THEN [d |-> d1, out |-> Raise("ValueRetrievalError")]
          ELSE cache(d1.default)
     ELSE cache(d1.default)

\* Value.setup that looks the variable up before it records the new
\* destination name
ValueSetupStaleName(d, name, env) ==
  Lookup([d EXCEPT !.destination_name = name],
         FullEnvironName(IF d.destination_name.kind = "none"
                         THEN [d EXCEPT !.destination_name = name] ELSE d),
         env)

\* Value.setup that falls back to the default of a required descriptor
ValueSetupNotRequired(d, name, env) ==
  LET cache(d1, value) ==
        [d |-> [d1 EXCEPT !.has_value = TRUE, !.cached = value], out |-> Ok(value)]
      converted(d1, conv) ==
        IF conv.kind = "raise" THEN [d |-> d1, out |-> conv]
        ELSE cache(d1, conv.val)
      lookup(d1, key) ==
        IF d1.environ /\ key \in DOMAIN env
        THEN converted(d1, ToPython(d1, env[key]))
        ELSE cache(d1, d1.default)
  IN lookup([d EXCEPT !.destination_name = name],
            FullEnvironName([d EXCEPT !.destination_name = name]))

\* Value.setup: the descriptor afterwards and the value returned or the
\* exception raised
ValueSetup(d, name, env) ==
  Lookup([d EXCEPT !.destination_name = name],
         FullEnvironName([d EXCEPT !.destination_name = name]), env)

\* PathValue.setup, r being what super().setup(name) returned and did
PathSetup(d, r, fs) ==
  LET checked(value) ==
        IF d.check_exists /\ ~PathExists(value, fs)
        THEN [d |-> r.d, out |-> Raise("ValueProcessingError")]
        ELSE [d |-> r.d, out |-> Ok(PyStr(AbsPath(value)))]
  IN IF r.out.kind = "raise" THEN r
     ELSE IF r.out.val.kind # "str" THEN [d |-> r.d, out |-> Raise("TypeError")]
     ELSE checked(ExpandUser(r.out.val.val))

\* SecretValue.setup, r being what super().setup(name) returned and did
SecretSetup(r) ==
  IF r.out.kind = "raise" THEN r
  ELSE IF ~Truthy(r.out.val) THEN [d |-> r.d, out |-> Raise("ValueRetrievalError")]
  ELSE r

\* value.setup(name), by the class that defines setup
Setup(d, name, env, fs) ==
  LET method(k, r) ==
        CASE k = "PathValue" -> PathSetup(d, r, fs)
          [] k = "SecretValue" -> SecretSetup(r)
          [] OTHER -> r
  IN method(Definer(Mro(d.cls), "setup"), ValueSetup(d, name, env))

\* the value property with a getter that resolves again although a value is
\* cached
ValueGetAlwaysResolves(d, env, fs) ==
  LET get(r) == IF r.out.kind = "raise" THEN r
                ELSE [d |-> r.d,
                      out |-> Ok(IF r.d.has_value THEN r.d.cached ELSE d.default)]
  IN get(IF Truthy(d.environ_name) THEN Setup(d, d.environ_name, env, fs)
         ELSE [d |-> d, out |-> Ok(PyNone)])

\* the getter of the value property
ValueGet(d, env, fs) ==
  LET get(r) == IF r.out.kind = "raise" THEN r
                ELSE [d |-> r.d,
                      out |-> Ok(IF r.d.has_value THEN r.d.cached ELSE d.default)]
  IN get(IF ~d.has_value /\ Truthy(d.environ_name)
         THEN Setup(d, d.environ_name, env, fs)
         ELSE [d |-> d, out |-> Ok(PyNone)])

\* Value.__new__ followed by the __init__ the call of the class makes: the
\* instance, the plain value an early resolution returned instead of it, or
\* the exception raised
New(cls, kw, env, fs) ==
  LET returned(early) ==
        IF early.out.kind = "raise"
        THEN [kind |-> "raise", val |-> early.out.val]
        ELSE [kind |-> "plain", val |-> early.out.val]
      new(late, init) ==
        IF init.kind = "raise" THEN [kind |-> "raise", val |-> init.val]
        ELSE IF ~late /\ ((init.val.environ /\ Truthy(init.val.environ_name))
                           \/ (~init.val.environ /\ Truthy(init.val.default)))
        THEN returned(Setup(init.val, init.val.environ_name, env, fs))
        ELSE [kind |-> "instance", val |-> init.val]
      bound(late) == new(late, InitInstance(cls, kw, late))
  IN bound(Arg(kw, "late_binding", ClassAttr(cls, "late_binding")).val)

(***************************************************************************)
(* setup_value(target, name, value)                                        *)
(***************************************************************************)
\* the setattr calls of the loop over actual_value.items()
RECURSIVE WriteItems(_, _, _)
WriteItems(target, items, keys) ==
  IF keys = <<>> THEN target
  ELSE WriteItems(SetAttr(target, Head(keys), items[Head(keys)]), items, Tail(keys))

\* setup_value: the target and the descriptor afterwards, the value
\* value.setup returned or the exception raised, and the attributes written
SetupValue(target, name, d, env, fs) ==
  LET multiple == ClassAttr(d.cls, "multiple").val
      items(actual_value, keys) ==
        [i \in 1..Len(keys) |->
           [name |-> keys[i], val |-> actual_value.val[keys[i]]]]
      entries(t1, first, got, r, keys) ==
        [target |-> WriteItems(t1, r.out.val.val, keys), d |-> got.d,
         out |-> r.out, written |-> first \o items(r.out.val, keys)]
      assigned(t1, first, got, r) ==
        IF ~multiple
        THEN [target |-> t1, d |-> got.d, out |-> r.out, written |-> first]
        ELSE IF r.out.val.kind # "dict"
        THEN [target |-> t1, d |-> got.d, out |-> Raise("AttributeError"),
              written |-> first]
        ELSE entries(t1, first, got, r, KeySeq(DOMAIN r.out.val.val))
      read(r, got) ==
        IF got.out.kind = "raise"
        THEN [target |-> target, d |-> got.d, out |-> got.out, written |-> <<>>]
        ELSE assigned(SetAttr(target, name.val, got.out.val),
                      <<[name |-> name.val, val |-> got.out.val]>>, got, r)
      resolved(r) ==
        IF r.out.kind = "raise"
        THEN [target |-> target, d |-> r.d, out |-> r.out, written |-> <<>>]
        ELSE read(r, ValueGet(r.d, env, fs))
  IN resolved(Setup(d, name, env, fs))

(***************************************************************************)
(* The inputs the model draws from.                                        *)
(***************************************************************************)
\* the variants whose descriptors are constructed and resolved
RunVariants ==
  {"Value", "BooleanValue", "IntegerValue", "PathValue", "SecretValue",
   "EmailURLValue", "DatabaseURLValue"}

\* the strings an environment variable is set to
RawValues == {<<>>, <<"1">>, <<"-","1">>, <<"~","/","p">>, URL1}

\* the names of the environment variables that may be set
EnvKeys ==
  {DJANGO \o <<"_","X">>, DJANGO \o <<"_","Y">>, DJANGO \o <<"_","e">>,
   <<"d","_","X">>, EMAIL_URL, DATABASE_URL}

\* os.environ: at most MaxEnvVars variables are set
Environments ==
  UNION {[K -> RawValues] : K \in {S \in SUBSET EnvKeys : Cardinality(S) <= MaxEnvVars}}

\* the paths that exist
ExistingPaths == {<<"/">>, <<"/","h">>, <<"/","h","/","p">>, <<"/","w">>}

\* the names a descriptor is resolved under
DestNames == {<<"X">>, <<"y">>}

\* the defaults passed to the constructor of a variant
DefaultsFor(cls) ==
  CASE cls = "BooleanValue" -> {Unset, PyBool(FALSE)}
    [] cls = "IntegerValue" -> {Unset, PyInt(1)}
    [] cls = "PathValue" -> {Unset, PyStr(<<"~">>)}
    [] cls \in URLVariants -> {Unset, PyStr(URL2)}
    [] OTHER -> {Unset, PyStr(<<"v">>)}

\* the keyword arguments passed to the constructor of a variant
AllKwargsFor(cls) ==
  [default : DefaultsFor(cls),
   environ : {Unset, PyBool(FALSE)},
   environ_name : {Unset, PyStr(<<"e">>)},
   environ_prefix : {Unset, PyStr(<<"d","_">>)},
   environ_required : {Unset, PyBool(TRUE)},
   late_binding : IF cls = "Value" THEN {Unset, PyBool(TRUE)} ELSE {Unset},
   check_exists : IF cls = "PathValue" THEN {Unset, PyBool(FALSE)} ELSE {Unset},
   alias : {Unset}]

KwargsFor(cls) ==
  {kw \in AllKwargsFor(cls) :
     Cardinality({k \in DOMAIN kw : kw[k].kind # "unset"}) <= MaxKwargs}

(***************************************************************************)
(* State.                                                                  *)
(***************************************************************************)
VARIABLES
  env,      \* os.environ
  phase,    \* "new", then "instance", "plain" or "raised" once constructed
  kwargs,   \* the keyword arguments the descriptor was constructed with
  desc,     \* the descriptor
  target,   \* the namespace setup_value writes to
  calls,    \* the calls made on the descriptor so far, with their outcomes
  schema,   \* the configuration class as written: its declarations and hooks
  pc,       \* the statement exec_module is at
  clsns,    \* the attributes of the configuration class
  heap,     \* the Value instances that exist
  attrs,    \* uppercase_attributes(obj).items()
  idx,      \* the item the loop of exec_module is at
  mod,      \* the attributes of the settings module
  pending,  \* the exception being raised inside the try block
  error,    \* the exception exec_module raised
  trace,    \* the steps taken and the module attributes written, in order
  installed,      \* the module global of importer.py
  create_parser,  \* the wrappers install has put around BaseCommand.create_parser
  meta_path,      \* sys.meta_path
  argv,           \* sys.argv
  installs        \* the calls of install made so far

valueVars == <<phase, kwargs, desc, target, calls>>

loaderVars == <<schema, pc, clsns, heap, attrs, idx, mod, pending, error, trace>>

installVars == <<installed, create_parser, meta_path, argv, installs>>

vars == <<env, phase, kwargs, desc, target, calls, schema, pc, clsns, heap, attrs,
          idx, mod, pending, error, trace, installed, create_parser, meta_path,
          argv, installs>>

NoException == [type |-> "none", cause |-> "none", path |-> <<>>, step |-> "none"]

\* the loader before exec_module is called
LoaderIdle(sch) ==
  /\ schema = sch
  /\ pc = "body"
  /\ clsns = <<>>
  /\ heap = <<>>
  /\ attrs = <<>>
  /\ idx = 1
  /\ mod = <<>>
  /\ pending = NoException
  /\ error = NoException
  /\ trace = <<>>

\* install has not been called
InstallIdle ==
  /\ installed = FALSE
  /\ create_parser = 0
  /\ meta_path = <<>>
  /\ argv = <<>>
  /\ installs = 0

NoDescriptor == ValueInit("Value", [k \in {"default", "environ", "environ_name",
  "environ_prefix", "environ_required", "late_binding", "check_exists",
  "alias"} |-> Unset], FALSE)

InitValue ==
  /\ env \in Environments
  /\ phase = "new"
  /\ kwargs = [k \in {} |-> Unset]
  /\ desc = NoDescriptor
  /\ target = <<>>
  /\ calls = <<>>
  /\ LoaderIdle([class |-> FALSE, decls |-> <<>>, raises |-> "none"])
  /\ InstallIdle

\* the record of one call
Call(op, name, r, written, after) ==
  [op |-> op, name |-> name, d |-> r.d, out |-> r.out, written |-> written,
   target |-> after]

\* cls(**kw)
Construct ==
  /\ phase = "new"
  /\ \E cls \in RunVariants : \E kw \in KwargsFor(cls) :
       \E r \in {New(cls, kw, env, ExistingPaths)} :
          /\ phase' = r.kind
          /\ kwargs' = kw
          /\ desc' = IF r.kind = "instance" THEN r.val
                     ELSE [NoDescriptor EXCEPT !.cls = cls]
          /\ calls' = IF r.kind = "instance" THEN <<>>
                      ELSE <<[op |-> "new", out |-> r]>>
  /\ UNCHANGED <<env, target, loaderVars, installVars>>

\* value.setup(name)
CallSetup ==
  /\ phase = "instance"
  /\ Len(calls) < MaxCalls
  /\ \E name \in DestNames :
       \E r \in {Setup(desc, PyStr(name), env, ExistingPaths)} :
          /\ desc' = r.d
          /\ calls' = Append(calls, Call("setup", name, r, <<>>, target))
  /\ UNCHANGED <<env, phase, kwargs, target, loaderVars, installVars>>

\* value.value
ReadValue ==
  /\ phase = "instance"
  /\ Len(calls) < MaxCalls
  /\ \E r \in {ValueGet(desc, env, ExistingPaths)} :
        /\ desc' = r.d
        /\ calls' = Append(calls, Call("value", <<>>, r, <<>>, target))
  /\ UNCHANGED <<env, phase, kwargs, target, loaderVars, installVars>>

\* setup_value(target, name, value)
CallSetupValue ==
  /\ phase = "instance"
  /\ Len(calls) < MaxCalls
  /\ \E name \in DestNames :
       \E r \in {SetupValue(target, PyStr(name), desc, env, ExistingPaths)} :
          /\ desc' = r.d
          /\ target' = r.target
          /\ calls' = Append(calls,
                        Call("setup_value", name, r, r.written, r.target))
  /\ UNCHANGED <<env, phase, kwargs, loaderVars, installVars>>

NextValue == Construct \/ CallSetup \/ ReadValue \/ CallSetupValue

SpecValue == InitValue /\ [][NextValue]_vars

(***************************************************************************)
(* Properties of the descriptors, checked under SpecValue.                 *)
(***************************************************************************)
\* equality of two Python values, and of two outcomes
PyEq(a, b) == a.kind = b.kind /\ a.val = b.val

OutEq(a, b) ==
  /\ a.kind = b.kind
  /\ IF a.kind = "ok" THEN PyEq(a.val, b.val) ELSE a.val = b.val

\* the calls of the given kinds made on the descriptor
CallsOf(ops) ==
  IF phase = "instance" THEN {i \in 1..Len(calls) : calls[i].op \in ops} ELSE {}

\* what setup makes of a variable that is set to raw: the converted value,
\* for a PathValue its expanded absolute form or the error of the path
\* check, or the error of the conversion
ResolvedFrom(d, raw) ==
  LET conv == ToPython(d, raw)
  IN IF conv.kind = "raise" THEN {conv}
     ELSE IF d.cls = "PathValue"
     THEN {Ok(PyStr(AbsPath(ExpandUser(conv.val.val)))),
           Raise("ValueProcessingError")}
     ELSE {conv}

\* what a required descriptor must do in call i
RequiredSemantics(i) ==
  LET d == calls[i].d
      out == calls[i].out
      full == FullEnvironName(d)
  IN IF full \notin DOMAIN env
     THEN OutEq(out, Raise("ValueRetrievalError"))
     ELSE IF d.cls = "SecretValue" /\ env[full] = <<>>
     THEN OutEq(out, Raise("ValueRetrievalError"))
     ELSE \E r \in ResolvedFrom(d, env[full]) : OutEq(out, r)

\* C5 as stated: setup_value writes every entry of the mapping a composite
\* URL descriptor resolves to as a target attribute of its own.
C5_EveryURLVariantWritesEntries ==
  \A i \in CallsOf({"setup_value"}) :
    (calls[i].d.cls \in URLVariants /\ calls[i].out.kind = "ok") =>
      \A k \in DOMAIN calls[i].out.val.val :
        /\ NsHas(calls[i].target, k)
        /\ PyEq(NsGet(calls[i].target, k), calls[i].out.val.val[k])

\* C5 amended: the four composite URL variants are the late-bound ones, but
\* EmailURLValue alone is multiple: setup_value of an EmailURLValue under N
\* writes N and every entry of the mapping, and of any other variant N only.
C5_OnlyEmailURLWritesEntries ==
  /\ \A c \in Variants :
       /\ ClassAttr(c, "multiple").val <=> c = "EmailURLValue"
       /\ ClassAttr(c, "late_binding").val <=> c \in URLVariants
  /\ \A i \in CallsOf({"setup_value"}) :
       LET c == calls[i]
           names == {c.written[j].name : j \in 1..Len(c.written)}
       IN c.out.kind = "ok" =>
            IF c.d.cls = "EmailURLValue"
            THEN /\ names = {c.name} \cup DOMAIN c.out.val.val
                 /\ \A k \in DOMAIN c.out.val.val :
                      PyEq(NsGet(c.target, k), c.out.val.val[k])
                 /\ c.name \notin DOMAIN c.out.val.val =>
                      PyEq(NsGet(c.target, c.name), c.out.val)
            ELSE Len(c.written) = 1 /\ c.written[1].name = c.name

\* an EmailURLValue whose mapping has entries went through setup_value
C5_Witness ==
  \E i \in CallsOf({"setup_value"}) :
    /\ calls[i].d.cls = "EmailURLValue"
    /\ calls[i].out.kind = "ok"
    /\ DOMAIN calls[i].out.val.val # {}
    /\ Len(calls[i].written) > 1

C7_SetupIdempotent ==
  \A i \in CallsOf({"setup"}) :
    (i + 1 \in CallsOf({"setup"}) /\ calls[i + 1].name = calls[i].name) =>
      /\ OutEq(calls[i + 1].out, calls[i].out)
      /\ calls[i + 1].d.has_value = calls[i].d.has_value
      /\ PyEq(calls[i + 1].d.cached, calls[i].d.cached)

\* a descriptor was resolved under one name and then twice under another,
\* from a variable that is set
C7_Witness ==
  \E i \in CallsOf({"setup"}) :
    /\ i > 1
    /\ i + 1 \in CallsOf({"setup"})
    /\ calls[i + 1].name = calls[i].name
    /\ calls[i - 1].op = "setup"
    /\ calls[i - 1].name # calls[i].name
    /\ calls[i].out.kind = "ok"
    /\ calls[i].d.environ
    /\ FullEnvironName(calls[i].d) \in DOMAIN env

\* C8 as stated: once destination_name is set, no later call changes it.
C8_DestinationNameImmutable ==
  [][desc.destination_name.kind # "none" =>
       desc'.destination_name = desc.destination_name]_vars

\* C8 amended: every setup call sets destination_name to the name it is
\* given, so a call with another name changes it; a read of the value
\* property makes such a call, with environ_name, only while no value is
\* cached and environ_name is set, and otherwise leaves destination_name as
\* it is.
C8_DestinationNameFollowsSetup ==
  [][(phase = "instance" /\ Len(calls') > Len(calls)) =>
       LET c == calls'[Len(calls')]
       IN /\ c.op \in {"setup", "setup_value"} =>
               PyEq(desc'.destination_name, PyStr(c.name))
          /\ (c.op = "value" /\ ~desc.has_value /\ Truthy(desc.environ_name)) =>
               PyEq(desc'.destination_name, desc.environ_name)
          /\ (c.op = "value" /\ (desc.has_value \/ ~Truthy(desc.environ_name))) =>
               PyEq(desc'.destination_name, desc.destination_name)]_vars

\* a descriptor with an environ_name was resolved under a name and its value
\* was read afterwards
C8_Witness ==
  /\ phase = "instance"
  /\ Len(calls) >= 2
  /\ calls[1].op = "setup"
  /\ calls[1].out.kind = "ok"
  /\ calls[2].op = "value"
  /\ Truthy(desc.environ_name)
  /\ PyEq(desc.destination_name, PyStr(calls[1].name))
  /\ ~PyEq(desc.destination_name, desc.environ_name)

\* C9 as stated: the name looked up is entirely uppercase.
C9_LookupNameUppercase ==
  \A i \in CallsOf({"setup"}) :
    calls[i].d.environ =>
      FullEnvironName(calls[i].d) = Upper(FullEnvironName(calls[i].d))

\* the name that is to be looked up, from the arguments of the constructor
ExpectedLookup(cls, kw, name) ==
  LET prefix == IF kw.environ_prefix.kind # "unset" THEN kw.environ_prefix
                ELSE IF cls \in URLVariants THEN PyNone ELSE PyStr(DJANGO)
      stem == IF Truthy(prefix) /\ prefix.val[Len(prefix.val)] = "_"
              THEN SubSeq(prefix.val, 1, Len(prefix.val) - 1)
              ELSE prefix.val
      explicit == IF kw.environ_name.kind # "unset" THEN kw.environ_name
                  ELSE IF cls = "EmailURLValue" THEN PyStr(EMAIL_URL)
                  ELSE IF cls = "DatabaseURLValue" THEN PyStr(DATABASE_URL)
                  ELSE PyNone
      part == IF Truthy(explicit) THEN explicit.val ELSE Upper(name)
  IN IF Len(stem) > 0 THEN stem \o <<"_">> \o part ELSE part

\* C9 amended: the name looked up is '{prefix}_{name}', the prefix (less one
\* trailing underscore) and an explicit environ_name taken as they were
\* given and only a name derived from the destination name uppercased; the
\* '{prefix}_' part is omitted when the prefix is empty or null.
C9_LookupNameFormat ==
  \A i \in CallsOf({"setup"}) :
    calls[i].d.environ =>
      FullEnvironName(calls[i].d) =
        ExpectedLookup(calls[i].d.cls, kwargs, calls[i].name)

\* a descriptor with a prefix was resolved under a lowercase name
C9_Witness ==
  \E i \in CallsOf({"setup"}) :
    /\ calls[i].d.environ
    /\ calls[i].name = <<"y">>
    /\ FullEnvironName(calls[i].d) = <<"d","_","Y">>

\* C10: setup caches the value it returns, a read of the value that follows
\* yields it, and setup_value writes it to the target under the name.
C10_CacheEqualsReturned ==
  /\ \A i \in CallsOf({"setup"}) :
       calls[i].out.kind = "ok" =>
         /\ calls[i].d.has_value
         /\ PyEq(calls[i].d.cached, calls[i].out.val)
         /\ i + 1 \in CallsOf({"value"}) => OutEq(calls[i + 1].out, calls[i].out)
  /\ \A i \in CallsOf({"setup_value"}) :
       (calls[i].out.kind = "ok" /\ Len(calls[i].written) = 1) =>
         PyEq(NsGet(calls[i].target, calls[i].name), calls[i].out.val)

\* C12: a setup call that raises a retrieval or processing error on a
\* descriptor that had no cached value leaves it without one, and a read of
\* the value that follows does not return the rejected input.
C12_FailedSetupLeavesNoCache ==
  \A i \in CallsOf({"setup"}) :
    (/\ calls[i].out.kind = "raise"
     /\ calls[i].out.val \in {"ValueRetrievalError", "ValueProcessingError"}
     /\ i > 1 => ~calls[i - 1].d.has_value) =>
      /\ ~calls[i].d.has_value
      /\ (i + 1 \in CallsOf({"value"}) /\ calls[i].d.environ
            /\ FullEnvironName(calls[i].d) \in DOMAIN env) =>
           ~OutEq(calls[i + 1].out, Ok(PyStr(env[FullEnvironName(calls[i].d)])))

(***************************************************************************)
(* The loader: wrap_loader.ConfigurationLoader.exec_module.                *)
(*                                                                         *)
(* A configuration class is given by its declarations, in the order        *)
(* written, and by the hook that raises, if one does.  A declaration is a  *)
(* plain value, a Value, a method (returning a plain value, returning a    *)
(* Value, or raising; or marked pristine), or a property that returns a    *)
(* Value.                                                                  *)
(***************************************************************************)
\* mod.__name__ and class_name
ModuleName == <<"s","e","t","t","i","n","g","s">>

ClassName == <<"D","e","v">>

CONFIGURATION == <<"C","O","N","F","I","G","U","R","A","T","I","O","N">>

\* cls_path
ClsPath == ModuleName \o <<".">> \o ClassName

BlankKwargs ==
  [k \in {"default", "environ", "environ_name", "environ_prefix",
          "environ_required", "late_binding", "check_exists", "alias"} |-> Unset]

\* the Value expressions a class body uses
Templates == {"Value", "Secret", "Email", "EmailE"}

Template(t) ==
  CASE t = "Secret" -> [cls |-> "SecretValue", kw |-> BlankKwargs]
    [] t = "Email" -> [cls |-> "EmailURLValue", kw |-> BlankKwargs]
    [] t = "EmailE" ->
         [cls |-> "EmailURLValue",
          kw |-> [BlankKwargs EXCEPT !.environ_name = PyStr(<<"e">>)]]
    [] OTHER -> [cls |-> "Value", kw |-> BlankKwargs]

AttrNames == {<<"A">>, <<"B">>, <<"b">>}

ValueKinds == {"value", "method_value", "property_value"}

Declarations ==
  [name : AttrNames, kind : ValueKinds, tmpl : Templates]
    \cup [name : AttrNames,
          kind : {"plain", "pristine", "method", "method_raises"},
          tmpl : {"Value"}]

Hooks == {"pre_setup", "setup", "init", "post_setup"}

\* the configuration classes of at most MaxAttrs declarations, and the
\* module that defines no class of the name asked for
Schemas ==
  {[class |-> FALSE, decls |-> <<>>, raises |-> "none"]} \cup
  {[class |-> TRUE, decls |-> ds, raises |-> h] :
     ds \in {x \in UNION {[1..n -> Declarations] : n \in 0..MaxAttrs} :
               \A i, j \in 1..Len(x) : i # j => x[i].name # x[j].name},
     h \in Hooks \cup {"none"}}

\* os.environ when the module is loaded
LoaderEnvironments ==
  {EmptyMap,
   (EMAIL_URL :> URL1) @@ (<<"e">> :> URL2),
   (EMAIL_URL :> URL2) @@ (<<"e">> :> <<"1">>),
   (DJANGO \o <<"_","A">> :> <<"1">>) @@ (DJANGO \o <<"_","B">> :> <<>>)}

InitLoader ==
  /\ env \in LoaderEnvironments
  /\ phase = "off"
  /\ kwargs = [k \in {} |-> Unset]
  /\ desc = NoDescriptor
  /\ target = <<>>
  /\ calls = <<>>
  /\ \E sch \in Schemas : LoaderIdle(sch)
  /\ InstallIdle

\* the statements of exec_module in the order written, with the statement
\* that records the provenance moved behind post_setup
NextStepSentinelLast(step) ==
  CASE step = "body" -> "lookup"
    [] step = "lookup" -> "pre_setup"
    [] step = "pre_setup" -> "setup"
    [] step = "setup" -> "init"
    [] step = "init" -> "attrs"
    [] step = "attrs" -> "post_setup"
    [] step = "post_setup" -> "sentinel"
    [] OTHER -> "done"

\* the statements of exec_module in the order written
NextStep(step) ==
  CASE step = "body" -> "lookup"
    [] step = "lookup" -> "pre_setup"
    [] step = "pre_setup" -> "setup"
    [] step = "setup" -> "init"
    [] step = "init" -> "attrs"
    [] step = "attrs" -> "sentinel"
    [] step = "sentinel" -> "post_setup"
    [] OTHER -> "done"

\* a try block that opens after pre_setup
InTryAfterPreSetup(step) ==
  step \in {"setup", "init", "attrs", "sentinel", "post_setup"}

\* the statements inside the try block
InTry(step) ==
  step \in {"pre_setup", "setup", "init", "attrs", "sentinel", "post_setup"}

\* an exception that leaves exec_module as it was raised
Escaped(exc, step) ==
  [type |-> exc, cause |-> "none", path |-> <<>>, step |-> step]

\* reraise(err, prefix): a ConfigurationError whose cause is err and whose
\* message holds the names of the prefix
Reraise(exc, names, step) ==
  [type |-> "ConfigurationError", cause |-> exc, path |-> names, step |-> step]

\* the step taken, and a module attribute written for item i
Ev(step) == [ev |-> step, attr |-> 0, name |-> <<>>, val |-> PyNone]

Wr(i, w) == [ev |-> "write", attr |-> i, name |-> w.name, val |-> w.val]

\* an exception raised by a statement: caught if inside the try block
Fail(step, exc) ==
  IF InTry(step)
  THEN /\ pc' = "except"
       /\ pending' = Escaped(exc, step)
       /\ error' = error
  ELSE /\ pc' = "raised"
       /\ pending' = pending
       /\ error' = Escaped(exc, step)

Continue(step) ==
  /\ pc' = NextStep(step)
  /\ UNCHANGED <<pending, error>>

\* the class statement: each declaration evaluated in turn
RECURSIVE ClassStatement(_, _, _, _)
ClassStatement(decls, ns, hp, e) ==
  LET rest(n, h) == ClassStatement(Tail(decls), n, h, e)
      value(dcl, new) ==
        CASE new.kind = "raise" -> [ns |-> ns, heap |-> hp, out |-> Raise(new.val)]
          [] new.kind = "plain" -> rest(SetAttr(ns, dcl.name, new.val), hp)
          [] OTHER -> rest(SetAttr(ns, dcl.name, Descriptor(Len(hp) + 1)),
                           Append(hp, new.val))
      statement(dcl, tm) ==
        CASE dcl.kind = "value" ->
               value(dcl, New(tm.cls, tm.kw, e, ExistingPaths))
          [] dcl.kind = "plain" -> rest(SetAttr(ns, dcl.name, PyStr(<<"p">>)), hp)
          [] dcl.kind = "property_value" ->
               rest(SetAttr(ns, dcl.name, [kind |-> "property", val |-> dcl]), hp)
          [] OTHER -> rest(SetAttr(ns, dcl.name, Callable(dcl)), hp)
  IN IF decls = <<>> THEN [ns |-> ns, heap |-> hp, out |-> Ok(PyNone)]
     ELSE statement(Head(decls), Template(Head(decls).tmpl))

\* super().exec_module(module): the body of the settings module
ExecBody ==
  /\ pc = "body"
  /\ trace' = Append(trace, Ev("body"))
  /\ \E r \in {ClassStatement(schema.decls, <<>>, <<>>, env)} :
        IF r.out.kind = "raise"
        THEN /\ Fail("body", r.out.val)
             /\ UNCHANGED <<clsns, heap, mod>>
        ELSE /\ clsns' = r.ns
             /\ heap' = r.heap
             /\ mod' = IF schema.class
                       THEN <<[name |-> ClassName,
                               val |-> [kind |-> "class", val |-> ClassName]]>>
                       ELSE <<>>
             /\ Continue("body")
  /\ UNCHANGED <<env, valueVars, installVars, schema, attrs, idx>>

\* cls = getattr(mod, class_name)
LookupClass ==
  /\ pc = "lookup"
  /\ IF NsHas(mod, ClassName)
     THEN Continue("lookup")
     ELSE /\ pc' = "raised"
          /\ error' = Reraise("AttributeError", ClassName, "lookup")
          /\ pending' = pending
  /\ UNCHANGED <<env, valueVars, installVars, schema, clsns, heap, attrs, idx, mod, trace>>

\* cls.pre_setup()
PreSetup ==
  /\ pc = "pre_setup"
  /\ trace' = Append(trace, Ev("pre_setup"))
  /\ IF schema.raises = "pre_setup" THEN Fail("pre_setup", "RuntimeError")
     ELSE Continue("pre_setup")
  /\ UNCHANGED <<env, valueVars, installVars, schema, clsns, heap, attrs, idx, mod>>

\* Configuration.setup: the loop over uppercase_attributes(cls).items()
RECURSIVE SetupClassValues(_, _, _, _)
SetupClassValues(items, ns, hp, e) ==
  LET stored(id, r) ==
        IF r.out.kind = "raise"
        THEN [ns |-> r.target, heap |-> [hp EXCEPT ![id] = r.d], out |-> r.out]
        ELSE SetupClassValues(Tail(items), r.target, [hp EXCEPT ![id] = r.d], e)
      item(it) ==
        IF IsUpperStr(it.name) /\ it.val.kind = "descriptor"
        THEN stored(it.val.val,
                    SetupValue(ns, PyStr(it.name), hp[it.val.val], e, ExistingPaths))
        ELSE SetupClassValues(Tail(items), ns, hp, e)
  IN IF items = <<>> THEN [ns |-> ns, heap |-> hp, out |-> Ok(PyNone)]
     ELSE item(Head(items))

\* cls.setup()
ClassSetup ==
  /\ pc = "setup"
  /\ trace' = Append(trace, Ev("setup"))
  /\ IF schema.raises = "setup"
     THEN /\ Fail("setup", "RuntimeError")
          /\ UNCHANGED <<clsns, heap>>
     ELSE \E r \in {SetupClassValues(clsns, clsns, heap, env)} :
             /\ clsns' = r.ns
             /\ heap' = r.heap
             /\ IF r.out.kind = "raise" THEN Fail("setup", r.out.val)
                ELSE Continue("setup")
  /\ UNCHANGED <<env, valueVars, installVars, schema, attrs, idx, mod>>

\* uppercase_attributes(obj): the uppercase attributes in the order declared,
\* each read through getattr
RECURSIVE UppercaseAttributes(_, _, _, _)
UppercaseAttributes(items, acc, hp, e) ==
  LET rest(a, h) == UppercaseAttributes(Tail(items), a, h, e)
      getter(it, new) ==
        CASE new.kind = "raise" ->
               [attrs |-> acc, heap |-> hp, out |-> Raise(new.val)]
          [] new.kind = "plain" ->
               rest(Append(acc, [name |-> it.name, val |-> new.val]), hp)
          [] OTHER ->
               rest(Append(acc, [name |-> it.name, val |-> Descriptor(Len(hp) + 1)]),
                    Append(hp, new.val))
      property(it, tm) == getter(it, New(tm.cls, tm.kw, e, ExistingPaths))
      item(it) ==
        IF ~IsUpperStr(it.name) THEN rest(acc, hp)
        ELSE IF it.val.kind # "property" THEN rest(Append(acc, it), hp)
        ELSE property(it, Template(it.val.val.tmpl))
  IN IF items = <<>> THEN [attrs |-> acc, heap |-> hp, out |-> Ok(PyNone)]
     ELSE item(Head(items))

\* obj = cls(); attributes = uppercase_attributes(obj).items()
Instantiate ==
  /\ pc = "init"
  /\ trace' = Append(trace, Ev("init"))
  /\ IF schema.raises = "init"
     THEN /\ Fail("init", "RuntimeError")
          /\ UNCHANGED <<heap, attrs>>
     ELSE \E r \in {UppercaseAttributes(clsns, <<>>, heap, env)} :
             /\ heap' = r.heap
             /\ attrs' = r.attrs
             /\ IF r.out.kind = "raise" THEN Fail("init", r.out.val)
                ELSE IF r.attrs = <<>>
                THEN /\ pc' = NextStep(NextStep("init"))
                     /\ UNCHANGED <<pending, error>>
                ELSE Continue("init")
  /\ UNCHANGED <<env, valueVars, installVars, schema, clsns, idx, mod>>

\* one turn of the loop over the attributes: the module and the heap
\* afterwards, the attributes written, and the exception raised if any
LoopBody(it, m, hp, e) ==
  LET plain(x) == [mod |-> SetAttr(m, it.name, x), heap |-> hp,
                   written |-> <<[name |-> it.name, val |-> x]>>,
                   out |-> Ok(PyNone)]
      raised(x) == [mod |-> m, heap |-> hp, written |-> <<>>, out |-> Raise(x)]
      setup(r) == [mod |-> r.target, heap |-> Append(hp, r.d),
                   written |-> r.written,
                   out |-> IF r.out.kind = "raise" THEN r.out ELSE Ok(PyNone)]
      returned(new) ==
        CASE new.kind = "raise" -> raised(new.val)
          [] new.kind = "plain" -> plain(new.val)
          [] OTHER -> setup(SetupValue(m, PyStr(it.name), new.val, e, ExistingPaths))
      call(dcl, tm) ==
        CASE dcl.kind = "method" -> plain(PyStr(<<"m">>))
          [] dcl.kind = "method_raises" -> raised("RuntimeError")
          [] OTHER -> returned(New(tm.cls, tm.kw, e, ExistingPaths))
  IN IF it.val.kind = "callable" /\ it.val.val.kind # "pristine"
     THEN call(it.val.val, Template(it.val.val.tmpl))
     ELSE plain(it.val)

\* for name, value in attributes: ...
WriteAttr ==
  /\ pc = "attrs"
  /\ idx <= Len(attrs)
  /\ \E r \in {LoopBody(attrs[idx], mod, heap, env)} :
        /\ mod' = r.mod
        /\ heap' = r.heap
        /\ trace' = trace \o [j \in 1..Len(r.written) |-> Wr(idx, r.written[j])]
        /\ idx' = idx + 1
        /\ IF r.out.kind = "raise" THEN Fail("attrs", r.out.val)
           ELSE IF idx = Len(attrs) THEN Continue("attrs")
           ELSE UNCHANGED <<pc, pending, error>>
  /\ UNCHANGED <<env, valueVars, installVars, schema, clsns, attrs>>

\* setattr(mod, 'CONFIGURATION', '{0}.{1}'.format(module.__name__, class_name))
SetSentinel ==
  /\ pc = "sentinel"
  /\ trace' = Append(trace, Ev("sentinel"))
  /\ mod' = SetAttr(mod, CONFIGURATION, PyStr(ModuleName \o <<".">> \o ClassName))
  /\ Continue("sentinel")
  /\ UNCHANGED <<env, valueVars, installVars, schema, clsns, heap, attrs, idx>>

\* cls.post_setup()
PostSetup ==
  /\ pc = "post_setup"
  /\ trace' = Append(trace, Ev("post_setup"))
  /\ IF schema.raises = "post_setup" THEN Fail("post_setup", "RuntimeError")
     ELSE Continue("post_setup")
  /\ UNCHANGED <<env, valueVars, installVars, schema, clsns, heap, attrs, idx, mod>>

\* except Exception as err: reraise(err, f"Couldn't setup configuration
\* '{cls_path}'")
Handle ==
  /\ pc = "except"
  /\ pc' = "raised"
  /\ error' = Reraise(pending.type, ClsPath, pending.step)
  /\ UNCHANGED <<env, valueVars, installVars, schema, clsns, heap, attrs, idx, mod, pending,
                 trace>>

NextLoader ==
  \/ ExecBody
  \/ LookupClass
  \/ PreSetup
  \/ ClassSetup
  \/ Instantiate
  \/ WriteAttr
  \/ SetSentinel
  \/ PostSetup
  \/ Handle

SpecLoader == InitLoader /\ [][NextLoader]_vars

(***************************************************************************)
(* Properties of the loader, checked under SpecLoader.                     *)
(***************************************************************************)
\* the positions of the trace at which a step was taken, and at which a
\* module attribute was written
StepPositions(step) == {j \in 1..Len(trace) : trace[j].ev = step}

WritePositions == StepPositions("write")

\* the steps taken, in order, the writes left out
StepsTaken ==
  LET F[j \in 0..Len(trace)] ==
        IF j = 0 THEN <<>>
        ELSE IF trace[j].ev = "write" THEN F[j - 1]
        ELSE Append(F[j - 1], trace[j].ev)
  IN F[Len(trace)]

IsPrefix(a, b) == Len(a) <= Len(b) /\ a = SubSeq(b, 1, Len(a))

\* item i of the attributes was resolved: a descriptor resolved under the
\* name of the item exists and the value it cached was written to the module
\* under that name
ResolvedUnderName(i) ==
  \E h \in 1..Len(heap) :
    /\ heap[h].has_value
    /\ PyEq(heap[h].destination_name, PyStr(attrs[i].name))
    /\ \E j \in WritePositions :
         /\ trace[j].attr = i
         /\ trace[j].name = attrs[i].name
         /\ PyEq(trace[j].val, heap[h].cached)

\* the effective value of item i is a Value descriptor
YieldsDescriptor(i) ==
  \/ attrs[i].val.kind = "descriptor"
  \/ /\ attrs[i].val.kind = "callable"
     /\ attrs[i].val.val.kind = "method_value"

\* C1 as stated: once exec_module has completed without error, every
\* uppercase attribute of the instance whose effective value is a Value
\* descriptor, held directly or returned by a non-pristine callable, has been
\* resolved under its name and the module holds the resolved value; no
\* module attribute holds a Value descriptor.
C1_EveryDescriptorResolved ==
  pc = "done" =>
    /\ \A i \in 1..Len(attrs) : YieldsDescriptor(i) => ResolvedUnderName(i)
    /\ \A k \in 1..Len(mod) : mod[k].val.kind # "descriptor"

\* C2: the steps of exec_module are taken once each and in the order body,
\* pre_setup, setup, instantiation, attribute writes, sentinel, post_setup:
\* no write precedes setup or instantiation or follows the sentinel, the
\* sentinel holds '<module name>.<class name>' whenever post_setup has run,
\* and a completed execution has taken every step and written every item.
C2_StepsInOrder ==
  /\ IsPrefix(StepsTaken,
              <<"body", "pre_setup", "setup", "init", "sentinel", "post_setup">>)
  /\ \A j \in WritePositions :
       /\ \E k \in StepPositions("setup") : k < j
       /\ \E k \in StepPositions("init") : k < j
       /\ \A k \in StepPositions("sentinel") \cup StepPositions("post_setup") : j < k
  /\ StepPositions("post_setup") # {} =>
       /\ NsHas(mod, CONFIGURATION)
       /\ PyEq(NsGet(mod, CONFIGURATION), PyStr(ClsPath))
  /\ pc = "done" =>
       /\ Len(StepsTaken) = 6
       /\ \A i \in 1..Len(attrs) :
            \E j \in WritePositions : trace[j].attr = i /\ trace[j].name = attrs[i].name

\* exec_module has completed for a class of two uppercase attributes
C2_Witness ==
  /\ pc = "done"
  /\ Len(attrs) = 2
  /\ Cardinality(WritePositions) >= 2
  /\ StepPositions("post_setup") # {}

\* C3: an exception raised by pre_setup, setup, the instantiation, the
\* resolution and writing of the attributes, the sentinel write or
\* post_setup leaves exec_module as a ConfigurationError whose cause is the
\* exception raised and whose message holds '<module>.<class>'.
C3_ExceptionsAnnotated ==
  /\ pc = "raised" /\ error.step \in {"pre_setup", "setup", "init", "attrs",
                                      "sentinel", "post_setup"} =>
       /\ error.type = "ConfigurationError"
       /\ error.cause # "none"
       /\ error.cause = pending.type
       /\ error.step = pending.step
       /\ error.path = ModuleName \o <<".">> \o ClassName
  /\ pc = "done" => error = NoException /\ pending = NoException

\* the resolution of a descriptor returned by a method raised a retrieval
\* error after an earlier item was written, and exec_module raised
C3_Witness ==
  /\ pc = "raised"
  /\ error.type = "ConfigurationError"
  /\ error.cause = "ValueRetrievalError"
  /\ error.step = "attrs"
  /\ WritePositions # {}

\* the last write to the name n, if any
LastWrite(n) ==
  CHOOSE j \in WritePositions :
    /\ trace[j].name = n
    /\ \A k \in WritePositions : trace[k].name = n => k <= j

\* C4: the items are processed in the order of their declaration, the writes
\* of an item (its primary value first, then the entries of a multiple
\* descriptor) follow those of the items before it, and every module
\* attribute written holds the value of the last write to its name.
C4_LastWriterWins ==
  /\ \A j, k \in WritePositions : j < k => trace[j].attr <= trace[k].attr
  /\ \A j \in WritePositions :
       /\ trace[j].attr \in 1..Len(attrs)
       /\ (\A k \in WritePositions : k < j => trace[k].attr # trace[j].attr) =>
            trace[j].name = attrs[trace[j].attr].name
  /\ \A i, j \in 1..Len(attrs) :
       \A a, b \in 1..Len(schema.decls) :
         (i < j /\ attrs[i].name = schema.decls[b].name
                /\ attrs[j].name = schema.decls[a].name) => ~(a < b)
  /\ \A j \in WritePositions :
       /\ NsHas(mod, trace[j].name)
       /\ PyEq(NsGet(mod, trace[j].name), trace[LastWrite(trace[j].name)].val)

\* A and B, declared in this order, both resolved to a mapping with an entry
\* A, and the module holds under A the entry written while processing B
C4_Witness ==
  /\ pc = "done"
  /\ Len(attrs) = 2
  /\ attrs[1].name = <<"A">>
  /\ attrs[2].name = <<"B">>
  /\ \E j, k \in WritePositions :
       /\ trace[j].attr = 1 /\ trace[j].name = <<"A">> /\ trace[j].val.kind = "str"
       /\ trace[k].attr = 2 /\ trace[k].name = <<"A">> /\ trace[k].val.kind = "str"
       /\ trace[j].val # trace[k].val
       /\ PyEq(NsGet(mod, <<"A">>), trace[k].val)

(***************************************************************************)
(* DictValue.to_python applied to a raw string.                            *)
(***************************************************************************)
\* the characters of the raw strings and the raw strings
DictAlphabet == {"{", "}", ":", "1", "x"}

DictRaws == UNION {[1..n -> DictAlphabet] : n \in 0..MaxRawLen}

InitDict ==
  /\ env = EmptyMap
  /\ phase = "to_python"
  /\ kwargs = BlankKwargs
  /\ desc = InitInstance("DictValue", BlankKwargs, FALSE).val
  /\ target = <<>>
  /\ calls = <<>>
  /\ LoaderIdle([class |-> FALSE, decls |-> <<>>, raises |-> "none"])
  /\ InstallIdle

\* value.to_python(raw)
CallToPython ==
  /\ phase = "to_python"
  /\ calls = <<>>
  /\ \E raw \in DictRaws :
       calls' = <<[op |-> "to_python", raw |-> raw, out |-> ToPython(desc, raw)]>>
  /\ UNCHANGED <<env, phase, kwargs, desc, target, loaderVars, installVars>>

NextDict == CallToPython

SpecDict == InitDict /\ [][NextDict]_vars

\* C11: DictValue.to_python returns a dict, the empty dict for the empty
\* string, or raises ValueProcessingError: a malformed literal and a literal
\* that is not a dict raise it, and no other exception escapes.
C11_DictOrProcessingError ==
  \A i \in 1..Len(calls) :
    phase = "to_python" =>
      /\ \/ calls[i].out.kind = "ok" /\ calls[i].out.val.kind = "dict"
         \/ calls[i].out.kind = "raise" /\ calls[i].out.val = "ValueProcessingError"
      /\ calls[i].raw = <<>> =>
           calls[i].out.kind = "ok" /\ calls[i].out.val.val = EmptyMap

(***************************************************************************)
(* install: the wrapper around BaseCommand.create_parser and the finder on *)
(* sys.meta_path.                                                          *)
(***************************************************************************)
\* ConfigurationFinder.namevar and ConfigurationFinder.modvar
CONFIGURATION_ENVIRONMENT_VARIABLE == DJANGO \o <<"_">> \o CONFIGURATION

SETTINGS_ENVIRONMENT_VARIABLE ==
  DJANGO \o <<"_","S","E","T","T","I","N","G","S","_","M","O","D","U","L","E">>

\* '--configuration'
CONFIGURATION_ARGUMENT == <<"-","-">> \o Lower(CONFIGURATION)

\* the command lines: none of them has --settings or --pythonpath
Argvs ==
  {<<<<"m","a","n","a","g","e">>>>,
   <<<<"m","a","n","a","g","e">>, <<"r","u","n">>>>,
   <<<<"m","a","n","a","g","e">>, <<"r","u","n">>, CONFIGURATION_ARGUMENT, ClassName>>}

\* os.environ when install is first called
InstallEnvironments ==
  {EmptyMap,
   (CONFIGURATION_ENVIRONMENT_VARIABLE :> ClassName),
   (SETTINGS_ENVIRONMENT_VARIABLE :> ModuleName),
   (CONFIGURATION_ENVIRONMENT_VARIABLE :> ClassName)
     @@ (SETTINGS_ENVIRONMENT_VARIABLE :> ModuleName)}

\* the finders found on sys.meta_path
PathFinder == "PathFinder"

ConfigurationFinder == "ConfigurationFinder"

InitInstall ==
  /\ env \in InstallEnvironments
  /\ phase = "off"
  /\ kwargs = [k \in {} |-> Unset]
  /\ desc = NoDescriptor
  /\ target = <<>>
  /\ calls = <<>>
  /\ LoaderIdle([class |-> FALSE, decls |-> <<>>, raises |-> "none"])
  /\ installed = FALSE
  /\ create_parser = 0
  /\ meta_path = <<PathFinder>>
  /\ argv \in Argvs
  /\ installs = 0

\* ConfigurationFinder.check_options: os.environ after the options of
\* self.argv[2:] are parsed
CheckOptions(av, e) ==
  LET args == SubSeq(av, 3, Len(av))
      given == {i \in 1..(Len(args) - 1) : args[i] = CONFIGURATION_ARGUMENT}
      last == CHOOSE i \in given : \A j \in given : j <= i
  IN IF given # {} /\ args[last + 1] # <<>>
     THEN (CONFIGURATION_ENVIRONMENT_VARIABLE :> args[last + 1]) @@ e
     ELSE e

\* ConfigurationFinder.validate
Validate(e) ==
  IF CONFIGURATION_ENVIRONMENT_VARIABLE \notin DOMAIN e
  THEN Raise("ImproperlyConfigured")
  ELSE IF SETTINGS_ENVIRONMENT_VARIABLE \notin DOMAIN e
  THEN Raise("ImproperlyConfigured")
  ELSE Ok(PyNone)

\* ConfigurationFinder.__init__: os.environ afterwards, and the exception
\* raised if any
FinderInit(check_options, av, e) ==
  LET validated(e1) == [env |-> e1, out |-> Validate(e1)]
  IN validated(IF check_options THEN CheckOptions(av, e) ELSE e)

\* install(check_options)
Install ==
  /\ installs < MaxInstalls
  /\ installs' = installs + 1
  /\ IF installed
     THEN UNCHANGED <<env, installed, create_parser, meta_path>>
     ELSE \E check_options \in BOOLEAN :
            \E r \in {FinderInit(check_options, argv, env)} :
               /\ create_parser' = create_parser + 1
               /\ env' = r.env
               /\ IF r.out.kind = "raise"
                  THEN UNCHANGED <<installed, meta_path>>
                  ELSE /\ meta_path' = <<ConfigurationFinder>> \o meta_path
                       /\ installed' = TRUE
  /\ UNCHANGED <<valueVars, loaderVars, argv>>

\* the caller defines an environment variable before it tries again
SetEnviron ==
  /\ installs < MaxInstalls
  /\ \E e \in InstallEnvironments :
       /\ DOMAIN e \ DOMAIN env # {}
       /\ env' = env @@ e
  /\ UNCHANGED <<valueVars, loaderVars, installVars>>

NextInstall == Install \/ SetEnviron

SpecInstall == InitInstall /\ [][NextInstall]_vars

\* C13: after any sequence of install calls, failed ones that are retried
\* included, BaseCommand.create_parser has been wrapped at most once,
\* sys.meta_path holds at most one ConfigurationFinder, and installed is
\* true exactly when both the wrap and the insertion have happened.
C13_InstalledOnce ==
  LET finders == {i \in 1..Len(meta_path) : meta_path[i] = ConfigurationFinder}
  IN /\ create_parser <= 1
     /\ Cardinality(finders) <= 1
     /\ installed <=> (create_parser >= 1 /\ finders # {})

====
